---------------------------- MODULE Spec2Model ----------------------------
(***************************************************************************)
(* A model of pysph.cpy's low level layer: the work-group partitioner      *)
(* splay, the scratch-memory descriptor LocalMem, the code generator       *)
(* Transpiler and the dispatcher Kernel (src/pysph/cpy/low_level.py and    *)
(* src/pysph/cpy/transpiler.py).                                           *)
(*                                                                         *)
(* Python's None is the empty sequence <<>> and a present optional value   *)
(* v is <<v>>.  A text (source code, a C type) is a sequence of tokens:    *)
(* the regular expression \bdouble\b matches exactly the token "double".   *)
(***************************************************************************)
EXTENDS Integers, Sequences, FiniteSets, TLC

VARIABLES
    queue,          \* the device of the command queue: its limits
    n,              \* splay's argument n
    kmax,           \* splay's argument kernel_specific_max_wg_size
    launch,         \* <<>> before splay returns, then <<[gs, ls, regime]>>
    calls,          \* per function, the names its source calls, in the order
                    \* get_all_functions meets them
    backend,        \* Transpiler.backend
    blocks,         \* Transpiler.blocks: the CodeBlocks, in registration order
    added,          \* the functions add was called with, by the user
    lastObj,        \* <<>>, or <<obj>> of the last call add(obj)
    addResult,      \* how the last call of add ended: "ok" or the exception
    prevBlocks,     \* Transpiler.blocks as the last call of add found it
    parsed,         \* the functions handed to the translator, in order
    defaultBackend, \* the backend get_backend resolves None to (the config)
    lmem,           \* <<>>, or <<the LocalMem>>: backend, size, _cache
    lmCtor,         \* how LocalMem(...) ended: "none" before it is called
    allocs,         \* the cl.LocalMemory objects created so far
    getLog,         \* what each LocalMem.get returned or raised, in order
    use_double,     \* get_config().use_double, the process-wide precision
    annotations,    \* the declared parameter types of f, KnownTypes
    knl,            \* <<>>, or <<the Kernel>>
    knlCtor,        \* how Kernel(...) ended: "none" before it is called
    policy0,        \* use_double as it was when Kernel(...) was called
    knlCall         \* <<>>, or <<the last call of the Kernel and its outcome>>

splayVars == <<queue, n, kmax, launch>>

tpVars == <<calls, backend, blocks, added, lastObj, addResult, prevBlocks,
           parsed>>

lmVars == <<defaultBackend, lmem, lmCtor, allocs, getLog>>

knlVars == <<use_double, annotations, knl, knlCtor, policy0, knlCall>>

vars == <<splayVars, tpVars, lmVars, knlVars>>

None == <<>>

Some(v) == <<v>>

Min(a, b) == IF a < b THEN a ELSE b

(***************************************************************************)
(* Bounds of the model.                                                    *)
(***************************************************************************)
MaxN == 8300

MaxCallSites == 4

RecursionLimit == 4

MaxGets == 3

MaxParams == 2

(***************************************************************************)
(* The devices, kernel limits and problem sizes the partitioner is tried   *)
(* on.                                                                     *)
(***************************************************************************)
DevWgSizes == {1, 2, 63, 64, 65, 100, 127, 128, 129, 1024}

ComputeUnits == {1, 2, 20}

KernelLimits == {None, Some(1), Some(64), Some(96), Some(256)}

Devices == [max_work_group_size : DevWgSizes, max_compute_units : ComputeUnits]

(***************************************************************************)
(* splay (low_level.py 78-106).                                            *)
(***************************************************************************)
WgCap == 128

WgFloor == 64

Overfill == 4

GroupsPerUnit == 8

max_work_items(q, k) ==
    LET m == Min(WgCap, q.max_work_group_size)
    IN  IF k # None THEN Min(m, k[1]) ELSE m

min_work_items(q, k) == Min(WgFloor, max_work_items(q, k))

full_groups(q) == q.max_compute_units * Overfill * GroupsPerUnit

\* Mutant: the ceiling divisions of splay taken as floor divisions.
splay_floor(q, nn, k) ==
    LET mw == max_work_items(q, k)
        mn == min_work_items(q, k)
        fg == full_groups(q)
    IN  IF nn < mn THEN
            [gs |-> 1 * mn, ls |-> mn, regime |-> 1]
        ELSE IF nn < fg * mn THEN
            [gs |-> (nn \div mn) * mn, ls |-> mn, regime |-> 2]
        ELSE IF nn < fg * mw THEN
            LET grp == nn \div mn
                w   == ((grp + fg - 1) \div fg) * mn
            IN  [gs |-> fg * w, ls |-> w, regime |-> 3]
        ELSE
            [gs |-> (nn \div mw) * mw, ls |-> mw, regime |-> 4]

\* Mutant: the third regime's upper boundary taken as <= instead of <.
splay_le(q, nn, k) ==
    LET mw == max_work_items(q, k)
        mn == min_work_items(q, k)
        fg == full_groups(q)
    IN  IF nn < mn THEN
            [gs |-> 1 * mn, ls |-> mn, regime |-> 1]
        ELSE IF nn < fg * mn THEN
            [gs |-> ((nn + mn - 1) \div mn) * mn, ls |-> mn, regime |-> 2]
        ELSE IF nn <= fg * mw THEN
            LET grp == (nn + mn - 1) \div mn
                w   == ((grp + fg - 1) \div fg) * mn
            IN  [gs |-> fg * w, ls |-> w, regime |-> 3]
        ELSE
            [gs |-> ((nn + mw - 1) \div mw) * mw, ls |-> mw, regime |-> 4]

\* The launch geometry: gs and ls are the single entries of the two tuples
\* splay returns; regime is the branch of the if/elif chain that was taken.
splay(q, nn, k) ==
    LET mw == max_work_items(q, k)
        mn == min_work_items(q, k)
        fg == full_groups(q)
    IN  IF nn < mn THEN
            [gs |-> 1 * mn, ls |-> mn, regime |-> 1]
        ELSE IF nn < fg * mn THEN
            [gs |-> ((nn + mn - 1) \div mn) * mn, ls |-> mn, regime |-> 2]
        ELSE IF nn < fg * mw THEN
            LET grp == (nn + mn - 1) \div mn
                w   == ((grp + fg - 1) \div fg) * mn
            IN  [gs |-> fg * w, ls |-> w, regime |-> 3]
        ELSE
            [gs |-> ((nn + mw - 1) \div mw) * mw, ls |-> mw, regime |-> 4]

(***************************************************************************)
(* The parts of the program a state machine below leaves untouched.        *)
(***************************************************************************)
TpIdle ==
    /\ calls = None
    /\ backend = "opencl"
    /\ blocks = <<>>
    /\ added = {}
    /\ lastObj = None
    /\ addResult = "ok"
    /\ prevBlocks = <<>>
    /\ parsed = <<>>

LmIdle ==
    /\ defaultBackend = "opencl"
    /\ lmem = None
    /\ lmCtor = "none"
    /\ allocs = <<>>
    /\ getLog = <<>>

KnlIdle ==
    /\ use_double = TRUE
    /\ annotations = <<>>
    /\ knl = None
    /\ knlCtor = "none"
    /\ policy0 = TRUE
    /\ knlCall = None

(***************************************************************************)
(* The partitioner as a state machine: the inputs are drawn in the initial *)
(* state and one step applies splay to them.                               *)
(***************************************************************************)
InitSplay ==
    /\ TpIdle
    /\ LmIdle
    /\ KnlIdle
    /\ queue \in Devices
    /\ n \in 0..MaxN
    /\ kmax \in KernelLimits
    /\ launch = None

Splay ==
    /\ launch = None
    /\ launch' = Some(splay(queue, n, kmax))
    /\ UNCHANGED <<queue, n, kmax>>
    /\ UNCHANGED <<tpVars, lmVars, knlVars>>

NextSplay == Splay

SpecSplay == InitSplay /\ [][NextSplay]_vars

(***************************************************************************)
(* Claims about splay.                                                     *)
(***************************************************************************)
Returned == launch # None

\* The geometry of the four regimes as the specification words it, with ceil
\* by case analysis.
Ceil(a, b) == IF a % b = 0 THEN a \div b ELSE (a \div b) + 1

RefMaxWg == IF kmax = None THEN Min(128, queue.max_work_group_size)
            ELSE Min(Min(128, queue.max_work_group_size), kmax[1])

RefMinWg == Min(64, RefMaxWg)

RefF == queue.max_compute_units * 32

RefGroups ==
    CASE n < RefMinWg -> 1
      [] RefMinWg <= n /\ n < RefF * RefMinWg -> Ceil(n, RefMinWg)
      [] RefF * RefMinWg <= n /\ n < RefF * RefMaxWg -> RefF
      [] OTHER -> Ceil(n, RefMaxWg)

RefSize ==
    CASE n < RefMinWg -> RefMinWg
      [] RefMinWg <= n /\ n < RefF * RefMinWg -> RefMinWg
      [] RefF * RefMinWg <= n /\ n < RefF * RefMaxWg ->
            Ceil(Ceil(n, RefMinWg), RefF) * RefMinWg
      [] OTHER -> RefMaxWg

\* C1: for n >= 1 and all device limits the local size splay returns is at
\* most max_wg = min(128, device maximum work-group size), capped by the
\* kernel-specific limit when one is given.
C1_LocalSizeAtMostMaxWg ==
    (Returned /\ n >= 1) =>
        launch[1].ls <= RefMaxWg

\* C2: for n >= 1 and all device limits the global size is an integer
\* multiple of the local size and at least n; n = min_wg - 1 falls in the
\* first regime and n = min_wg in the second, and both satisfy this.
C2_GlobalMultipleAndCovers ==
    (Returned /\ n >= 1) =>
        /\ launch[1].ls >= 1
        /\ launch[1].gs % launch[1].ls = 0
        /\ launch[1].gs >= n
        /\ (n = RefMinWg - 1) => launch[1].regime = 1
        /\ (n = RefMinWg) => launch[1].regime = 2

C2_Witness ==
    /\ Returned
    /\ n = RefMinWg
    /\ n = 64
    /\ launch[1].regime = 2
    /\ launch[1].gs = 64

\* C3: splay returns exactly the geometry of the four-regime reference with
\* min_wg = min(64, max_wg) and F = compute_units * 32, global size = group
\* count * group size; n = 10 with max_wg = 128 and 20 compute units gives
\* local size 64 and global size 64.
C3_MatchesFourRegimes ==
    Returned =>
        /\ launch[1].ls = RefSize
        /\ launch[1].gs = RefGroups * RefSize
        /\ (n = 10 /\ queue.max_work_group_size = 128
              /\ queue.max_compute_units = 20 /\ kmax = None)
           => (launch[1].ls = 64 /\ launch[1].gs = 64)

C3_Witness ==
    /\ Returned
    /\ launch[1].regime = 3
    /\ launch[1].ls = 128
    /\ launch[1].gs = 32 * 128

(***************************************************************************)
(* The functions a program is made of, and the names their sources call.   *)
(***************************************************************************)
Funcs == {"f", "g", "h"}

\* BUILTINS (transpiler.py 16-20): the names of math, of which sqrt stands
\* for all, and the listed helpers.
BUILTINS == {"sqrt", "max", "abs", "min", "range", "declare",
             "local_barrier", "annotate", "printf"}

Names == Funcs \cup {"sqrt"}

Range(s) == {s[i] : i \in DOMAIN s}

Injective(s) == \A i, j \in DOMAIN s : s[i] = s[j] => i = j

\* What get_calls can return for one function: names without repetition.
CallLists ==
    {s \in UNION {[1..k -> Names] :
                     k \in 0..Min(MaxCallSites, Cardinality(Names))} :
        Injective(s)}

\* The programs: at most MaxCallSites calls in the sources of all functions.
Programs ==
    {c \in [Funcs -> CallLists] :
        Len(c["f"]) + Len(c["g"]) + Len(c["h"]) <= MaxCallSites}

(***************************************************************************)
(* Texts.                                                                  *)
(***************************************************************************)
RECURSIVE Join(_)
\* '\n'.join(texts)
Join(texts) ==
    IF texts = <<>> THEN <<>>
    ELSE IF Len(texts) = 1 THEN texts[1]
    ELSE texts[1] \o <<"\n">> \o Join(Tail(texts))

\* re.sub(r'\bdouble\b', 'float', text)
sub_double_float(text) ==
    [i \in DOMAIN text |-> IF text[i] = "double" THEN "float" ELSE text[i]]

(***************************************************************************)
(* transpiler.py.                                                          *)
(***************************************************************************)
\* filter_calls (23-26)
filter_calls(cs) == SelectSeq(cs, LAMBDA x : x \notin BUILTINS)

\* get_calls of the function's source (ast_utils, not in src/): the names
\* in call position.
get_calls(func) == calls[func]

\* get_all_functions (29-36): a name resolves to the function of that name.
get_all_functions(func) == filter_calls(get_calls(func))

RECURSIVE Concat(_)
\* The texts of a sequence, one after the other.
Concat(texts) ==
    IF texts = <<>> THEN <<>> ELSE Head(texts) \o Concat(Tail(texts))

\* The declared parameter types of a function: those of annotations for f;
\* g and h take no parameters.
ParamTypes(obj) ==
    IF obj = "f" THEN Concat([i \in DOMAIN annotations |-> annotations[i].type])
    ELSE <<>>

\* The translators (cython_generator, translator: not in src/): the code of
\* one function, which names it and declares its parameters.
translate(obj, be) ==
    IF be = "cython" THEN <<"cdef", obj, "(">> \o ParamTypes(obj) \o <<")", ":">>
    ELSE <<"void", obj, "(">> \o ParamTypes(obj) \o <<")", "{", "}">>

\* Transpiler.__init__ (74-93): the header, line by line; CLUDA_PREAMBLE
\* stands for pyopencl's rendered preamble.
Header(be) ==
    IF be = "cython" THEN
        <<"\n",
          "from", "libc.stdio", "cimport", "printf", "\n",
          "from", "libc.math", "cimport", "*", "\n",
          "from", "libc.math", "cimport", "fabs", "as", "abs", "\n",
          "from", "libc.math", "cimport", "M_PI", "as", "pi", "\n",
          "from", "cython.parallel", "import", "parallel", ",", "prange", "\n">>
    ELSE
        <<"CLUDA_PREAMBLE", "\n",
          "#define", "max", "(", "x", ",", "y", ")", "fmax", "(", "(", "double",
          ")", "(", "x", ")", ",", "(", "double", ")", "(", "y", ")", ")", "\n",
          "\n",
          "__constant", "double", "pi", "=", "M_PI", ";", "\n">>

\* CodeBlock.__init__ (47-49)
CodeBlock(obj, code) == [obj |-> obj, code |-> code]

\* Mutant: blocks compared by their code instead of their object.
CodeBlock_eq_code(self, other) == self.code = other

\* CodeBlock.__eq__ (51-55) with a function as the other operand, as in
\* "obj in self.blocks".
CodeBlock_eq(self, other) == self.obj = other

\* obj in self.blocks (96)
In(obj, bs) == \E i \in DOMAIN bs : CodeBlock_eq(bs[i], obj)

\* Mutant: a function's unit is appended before its callees are resolved.
RECURSIVE add_preorder(_, _, _), add_each_preorder(_, _, _)
add_preorder(st, obj, depth) ==
    IF depth > RecursionLimit THEN [st EXCEPT !.err = "RecursionError"]
    ELSE IF In(obj, st.blocks) THEN st
    ELSE IF st.backend \notin {"cython", "opencl"} THEN
        [st EXCEPT !.err = "UnboundLocalError"]
    ELSE add_each_preorder(
            [st EXCEPT !.blocks = Append(@, CodeBlock(obj, translate(obj, st.backend))),
                       !.parsed = Append(@, obj)],
            get_all_functions(obj), depth + 1)

add_each_preorder(st, fs, depth) ==
    IF fs = <<>> \/ st.err # "ok" THEN st
    ELSE add_each_preorder(add_preorder(st, Head(fs), depth), Tail(fs), depth)

\* Transpiler.add (95-108).  st is the Transpiler (backend, blocks), the calls
\* made to the translator and how the call ended;
\* depth counts the frames of add on the stack, and a call beyond
\* RecursionLimit raises RecursionError, which no frame catches.
RECURSIVE add(_, _, _), add_each(_, _, _)
add(st, obj, depth) ==
    IF depth > RecursionLimit THEN [st EXCEPT !.err = "RecursionError"]
    ELSE IF In(obj, st.blocks) THEN st
    ELSE LET st1 == add_each(st, get_all_functions(obj), depth + 1)
         IN  IF st1.err # "ok" THEN st1
             ELSE IF st.backend \notin {"cython", "opencl"} THEN
                 [st1 EXCEPT !.err = "UnboundLocalError"]
             ELSE [st1 EXCEPT
                     !.blocks = Append(@, CodeBlock(obj, translate(obj, st.backend))),
                     !.parsed = Append(@, obj)]

\* for f in get_all_functions(obj): self.add(f) (98-99)
add_each(st, fs, depth) ==
    IF fs = <<>> \/ st.err # "ok" THEN st
    ELSE add_each(add(st, Head(fs), depth), Tail(fs), depth)

\* Transpiler.get_code (114-116)
get_code(be, bs) ==
    Join(<<Header(be)>> \o [i \in DOMAIN bs |-> bs[i].code])

(***************************************************************************)
(* The Transpiler as a state machine: the program (its call graph) and the *)
(* backend are drawn in the initial state, each step is one call of add.   *)
(***************************************************************************)
SplayIdle ==
    /\ queue = [max_work_group_size |-> 128, max_compute_units |-> 1]
    /\ n = 0
    /\ kmax = None
    /\ launch = None

InitTranspiler ==
    /\ SplayIdle
    /\ LmIdle
    /\ KnlIdle
    /\ calls \in Programs
    /\ backend \in {"cython", "opencl"}
    /\ blocks = <<>>
    /\ parsed = <<>>
    /\ added = {}
    /\ lastObj = None
    /\ addResult = "ok"
    /\ prevBlocks = <<>>

Add(obj) ==
    /\ LET r == add([backend |-> backend, blocks |-> blocks,
                     parsed |-> parsed, err |-> "ok"], obj, 1)
       IN  /\ blocks' = r.blocks
           /\ parsed' = r.parsed
           /\ addResult' = r.err
    /\ prevBlocks' = blocks
    /\ lastObj' = Some(obj)
    /\ added' = added \cup {obj}
    /\ UNCHANGED <<calls, backend>>
    /\ UNCHANGED <<splayVars, lmVars, knlVars>>

NextTranspiler == \E obj \in Funcs : Add(obj)

SpecTranspiler == InitTranspiler /\ [][NextTranspiler]_vars

(***************************************************************************)
(* Claims about add.                                                       *)
(***************************************************************************)
Objs(bs) == {bs[i].obj : i \in DOMAIN bs}

\* f calls g, g a function of the program and no builtin.
Calls(f, g) == g \in Range(calls[f]) /\ g \notin BUILTINS

RECURSIVE ReachFrom(_)
\* The functions of S and all they call, directly or not.
ReachFrom(S) ==
    LET T == S \cup {g \in Funcs : \E f \in S : Calls(f, g)}
    IN  IF T = S THEN S ELSE ReachFrom(T)

\* No function that S reaches calls itself, directly or through others.
AcyclicFrom(S) ==
    \A f \in ReachFrom(S) :
        f \notin ReachFrom({g \in Funcs : Calls(f, g)})

\* The least index at which pat occurs in text, 0 when it does not.
FirstAt(text, pat) ==
    LET at == {i \in 1..(Len(text) - Len(pat) + 1) :
                  SubSeq(text, i, i + Len(pat) - 1) = pat}
    IN  IF at = {} THEN 0 ELSE CHOOSE i \in at : \A j \in at : i <= j

UnitsAreTheClosureInOrder ==
    LET text == get_code(backend, blocks)
    IN  /\ Objs(blocks) = ReachFrom(added)
        /\ Objs(blocks) \cap BUILTINS = {}
        /\ \A i, j \in DOMAIN blocks : blocks[i].obj = blocks[j].obj => i = j
        /\ \A f \in Funcs :
              Cardinality({i \in DOMAIN parsed : parsed[i] = f})
                  = (IF f \in Objs(blocks) THEN 1 ELSE 0)
        /\ \A i, j \in DOMAIN blocks :
              Calls(blocks[j].obj, blocks[i].obj) =>
                  /\ i < j
                  /\ FirstAt(text, blocks[i].code) > 0
                  /\ FirstAt(text, blocks[i].code) < FirstAt(text, blocks[j].code)

C5_AddIdempotent ==
    (lastObj # None /\ lastObj[1] \in Objs(prevBlocks)) =>
        /\ blocks = prevBlocks
        /\ get_code(backend, blocks) = get_code(backend, prevBlocks)
        /\ addResult = "ok"

C5_Witness ==
    /\ lastObj = Some("g")
    /\ Len(prevBlocks) = 3
    /\ prevBlocks[2].obj = "g"
    /\ blocks = prevBlocks

\* C10: for every call graph, with or without cycles, a call add(f) ends
\* with f registered as a unit.
C10_AddRegistersOnEveryGraph ==
    lastObj # None => (addResult = "ok" /\ lastObj[1] \in Objs(blocks))

(***************************************************************************)
(* LocalMem (low_level.py 29-75).                                          *)
(***************************************************************************)
Backends == {"opencl", "cuda", "cython"}

\* The C types scratch memory is asked for, as texts.
CTypes == {<<"double">>, <<"float">>, <<"int">>}

WorkGroupSizes == {64, 128}

LocalMemSizes == {1, 2}

\* get_backend (array, not in src/): the backend named, or the configured
\* default when none is.
get_backend(b) == IF b = None THEN defaultBackend ELSE b[1]

\* ctype_to_dtype (types, not in src/): the numpy type of a C type, with
\* its width in bytes; a text that names no C type has none.
ctype_to_dtype(c_type) ==
    CASE c_type = <<"double">> -> [name |-> "float64", itemsize |-> 8]
      [] c_type = <<"float">> -> [name |-> "float32", itemsize |-> 4]
      [] c_type = <<"int">> -> [name |-> "int32", itemsize |-> 4]
      [] OTHER -> [name |-> "KeyError", itemsize |-> 0]

\* LocalMem.__init__ (41-57): the test at line 52 reads the argument, not
\* self.backend.
LocalMem_init(size, b) ==
    IF b = Some("cython")
    THEN [err |-> "NotImplementedError", self |-> None]
    ELSE [err |-> "ok",
          self |-> Some([backend |-> get_backend(b), size |-> size,
                         cache |-> {}])]

\* cl.LocalMemory(nbytes): a new object of the device runtime, the id-th.
LocalMemory(id, nbytes) == [id |-> id, size |-> nbytes]

\* Mutant: get without the cache, every call a fresh cl.LocalMemory.
LocalMem_get_fresh(self, made, c_type, workgroup_size) ==
    IF self.backend = "opencl" THEN
        LET sz  == ctype_to_dtype(c_type).itemsize
            mem == LocalMemory(Len(made) + 1, sz * self.size * workgroup_size)
        IN  IF sz = 0
            THEN [err |-> "KeyError", mem |-> None, self |-> self, made |-> made]
            ELSE [err |-> "ok", mem |-> Some(mem), self |-> self,
                  made |-> Append(made, mem)]
    ELSE [err |-> "NotImplementedError", mem |-> None, self |-> self,
          made |-> made]

\* LocalMem.get (59-75).  made are the cl.LocalMemory objects created so
\* far; the result is what get returns or raises, the descriptor and the
\* objects afterwards.
LocalMem_get(self, made, c_type, workgroup_size) ==
    LET key == <<c_type, workgroup_size>>
        hit == {e \in self.cache : e.key = key}
    IN  IF hit # {} THEN
            [err |-> "ok", mem |-> Some((CHOOSE e \in hit : TRUE).mem),
             self |-> self, made |-> made]
        ELSE IF self.backend = "opencl" THEN
            LET sz  == ctype_to_dtype(c_type).itemsize
                mem == LocalMemory(Len(made) + 1,
                                   sz * self.size * workgroup_size)
            IN  IF sz = 0
                THEN [err |-> "KeyError", mem |-> None, self |-> self,
                      made |-> made]
                ELSE [err |-> "ok", mem |-> Some(mem),
                      self |-> [self EXCEPT !.cache =
                                   @ \cup {[key |-> key, mem |-> mem]}],
                      made |-> Append(made, mem)]
        ELSE [err |-> "NotImplementedError", mem |-> None, self |-> self,
              made |-> made]

(***************************************************************************)
(* One LocalMem as a state machine: it is constructed once, then resolved  *)
(* up to MaxGets times.                                                    *)
(***************************************************************************)
InitLocalMem ==
    /\ SplayIdle
    /\ TpIdle
    /\ KnlIdle
    /\ defaultBackend \in Backends
    /\ lmem = None
    /\ lmCtor = "none"
    /\ allocs = <<>>
    /\ getLog = <<>>

NewLocalMem(size, b) ==
    /\ lmCtor = "none"
    /\ LET r == LocalMem_init(size, b)
       IN  /\ lmCtor' = r.err
           /\ lmem' = r.self
    /\ UNCHANGED <<defaultBackend, allocs, getLog>>
    /\ UNCHANGED <<splayVars, tpVars, knlVars>>

Get(c_type, workgroup_size) ==
    /\ lmem # None
    /\ Len(getLog) < MaxGets
    /\ LET r == LocalMem_get(lmem[1], allocs, c_type, workgroup_size)
       IN  /\ lmem' = Some(r.self)
           /\ allocs' = r.made
           /\ getLog' = Append(getLog, [key |-> <<c_type, workgroup_size>>,
                                        err |-> r.err, mem |-> r.mem])
    /\ UNCHANGED <<defaultBackend, lmCtor>>
    /\ UNCHANGED <<splayVars, tpVars, knlVars>>

NextLocalMem ==
    \/ \E size \in LocalMemSizes, b \in {None} \cup {Some(x) : x \in Backends} :
          NewLocalMem(size, b)
    \/ \E c_type \in CTypes, w \in WorkGroupSizes : Get(c_type, w)

SpecLocalMem == InitLocalMem /\ [][NextLocalMem]_vars

(***************************************************************************)
(* Claims about LocalMem.                                                  *)
(***************************************************************************)
\* C7: for every backend, passed or resolved from the default, either the
\* LocalMem constructor raises the unsupported-configuration error or every
\* later get on the descriptor succeeds.
C7_FailFastAtConstruction ==
    lmCtor = "ok" => \A i \in DOMAIN getLog : getLog[i].err = "ok"

\* C9 as stated: every resolution requests a fresh allocation from the
\* device runtime, also for a pair resolved before, so no two resolutions
\* return the same allocation object.
C9_Original ==
    /\ \A i, j \in DOMAIN getLog :
          (i # j /\ getLog[i].err = "ok" /\ getLog[j].err = "ok")
              => getLog[i].mem # getLog[j].mem
    /\ Len(allocs) = Cardinality({i \in DOMAIN getLog : getLog[i].err = "ok"})

\* C9, amended: a resolution requests a fresh allocation only for a pair
\* (type, work-group size) not resolved before on the descriptor; a pair
\* resolved before gets the cached allocation object back, and nothing is
\* requested.  Two resolutions return the same object exactly when their
\* pairs are equal, and an object's size is itemsize * size * group size.
C9_FreshPerPairThenCached ==
    LET ok == {i \in DOMAIN getLog : getLog[i].err = "ok"}
    IN  /\ \A i, j \in ok :
              (getLog[i].mem = getLog[j].mem) <=> (getLog[i].key = getLog[j].key)
        /\ Len(allocs) = Cardinality({getLog[i].key : i \in ok})
        /\ \A i, j \in DOMAIN allocs : allocs[i] = allocs[j] => i = j
        /\ \A i \in ok :
              getLog[i].mem[1].size =
                  (IF getLog[i].key[1] = <<"double">> THEN 8 ELSE 4)
                      * lmem[1].size * getLog[i].key[2]

C9_Witness ==
    /\ Len(getLog) = 3
    /\ getLog[1].key = getLog[3].key
    /\ getLog[1].key # getLog[2].key
    /\ getLog[1].err = "ok"
    /\ getLog[2].err = "ok"
    /\ getLog[3].mem = getLog[1].mem
    /\ Len(allocs) = 2

(***************************************************************************)
(* Kernel (low_level.py 109-222) and the precision rewriting of            *)
(* transpiler.py 39-43, 118-130.                                           *)
(***************************************************************************)
\* KnownType(type, base_type) (types, not in src/): two C type texts.
KnownType(type, base_type) == [type |-> type, base_type |-> base_type]

\* The annotations a parameter of a kernel can carry: a double, a global
\* double array and a local (scratch) double array.
DeclaredTypes ==
    {KnownType(<<"double">>, <<>>),
     KnownType(<<"GLOBAL_MEM", "double", "*">>, <<"double">>),
     KnownType(<<"LOCAL_MEM", "double", "*">>, <<"double">>)}

\* The signatures of f: no parameter, or a global array (whose size is the
\* problem size, line 207) followed by parameters of any kind.
Signatures ==
    {<<>>} \cup
    {<<KnownType(<<"GLOBAL_MEM", "double", "*">>, <<"double">>)>> \o s :
        s \in UNION {[1..k -> DeclaredTypes] : k \in 0..(MaxParams - 1)}}

\* What a caller passes: an Array of some elements, a LocalMem (the one of
\* lmem), or a plain Python number.
Array(size) == [kind |-> "Array", size |-> size]

LocalMemArg == [kind |-> "LocalMem", size |-> 0]

Scalar == [kind |-> "scalar", size |-> 0]

ArgValues == {Array(100), LocalMemArg, Scalar}

ArgLists == UNION {[1..k -> ArgValues] : k \in 0..(MaxParams + 1)}

\* convert_to_float_if_needed (transpiler.py 39-43): reads the config when
\* it is called.
convert_to_float_if_needed(code) ==
    IF ~use_double THEN sub_double_float(code) ELSE code

\* Kernel._to_float (144-145)
Kernel_to_float(s) == sub_double_float(s)

\* Mutant: the declared types are kept as annotated, whatever the precision.
Kernel_get_func_info_raw(self_use_double, ann) == ann

\* Kernel._get_func_info (147-166): the 'args' entry, the types in order.
Kernel_get_func_info(self_use_double, ann) ==
    [i \in DOMAIN ann |->
        IF ~self_use_double
        THEN KnownType(Kernel_to_float(ann[i].type),
                       Kernel_to_float(ann[i].base_type))
        ELSE ann[i]]

\* Kernel._correct_opencl_address_space (181-184): 'KERNEL ' before the
\* first line of the last block.
Kernel_correct_opencl_address_space(bs) ==
    [bs EXCEPT ![Len(bs)].code = <<"KERNEL">> \o @]

\* Transpiler.compile (118-130) for opencl: the source handed to the build.
compile(be, bs) == convert_to_float_if_needed(get_code(be, bs))

\* Kernel.__init__ (126-142) with _generate (168-179).  wg is what the
\* built kernel reports as its work-group size.
Kernel_init(func, b, wg) ==
    LET be == get_backend(b)
        tp == add([backend |-> be, blocks |-> <<>>, parsed |-> <<>>,
                   err |-> "ok"], func, 1)
    IN  IF be = "cython" THEN
            [err |-> "NotImplementedError", self |-> None, tp |-> None]
        ELSE IF tp.err # "ok" THEN
            [err |-> tp.err, self |-> None, tp |-> Some(tp)]
        ELSE
            LET bs == Kernel_correct_opencl_address_space(tp.blocks)
            IN  [err |-> "ok",
                 self |-> Some([name |-> func,
                                backend |-> be,
                                use_double |-> use_double,
                                func_info |->
                                    Kernel_get_func_info(use_double, annotations),
                                source |-> compile(be, bs),
                                max_work_group_size |-> wg]),
                 tp |-> Some([tp EXCEPT !.blocks = bs])]

\* Kernel._massage_arg (186-193).  lm is the LocalMem the argument refers
\* to and made the cl.LocalMemory objects created so far.
Kernel_massage_arg(x, type_info, workgroup_size, lm, made) ==
    IF x.kind = "Array" THEN
        [err |-> "ok", lm |-> lm, made |-> made,
         c_arg |-> [kind |-> "dev.data", dtype |-> "", nbytes |-> 0]]
    ELSE IF x.kind = "LocalMem" THEN
        LET r == LocalMem_get(lm, made, type_info.base_type, workgroup_size)
        IN  [err |-> r.err, lm |-> r.self, made |-> r.made,
             c_arg |-> [kind |-> "cl.LocalMemory", dtype |-> "",
                        nbytes |-> IF r.mem = None THEN 0 ELSE r.mem[1].size]]
    ELSE
        LET d == ctype_to_dtype(type_info.type)
        IN  [err |-> IF d.itemsize = 0 THEN "KeyError" ELSE "ok",
             lm |-> lm, made |-> made,
             c_arg |-> [kind |-> "ndarray", dtype |-> d.name,
                        nbytes |-> 1 * d.itemsize]]

RECURSIVE Kernel_get_args_from(_, _, _, _, _)
\* The loop of Kernel._get_args (198-199) from the i-th pair of
\* zip(args, arg_info) on; acc is c_args, the LocalMem and the allocations.
Kernel_get_args_from(i, args, arg_info, workgroup_size, acc) ==
    IF i > Min(Len(args), Len(arg_info)) \/ acc.err # "ok" THEN acc
    ELSE LET r == Kernel_massage_arg(args[i], arg_info[i], workgroup_size,
                                     acc.lm, acc.made)
         IN  Kernel_get_args_from(i + 1, args, arg_info, workgroup_size,
                [err |-> r.err, lm |-> r.lm, made |-> r.made,
                 c_args |-> IF r.err = "ok" THEN Append(acc.c_args, r.c_arg)
                            ELSE acc.c_args])

\* Kernel._get_args (195-200)
Kernel_get_args(self, args, workgroup_size, lm, made) ==
    Kernel_get_args_from(1, args, self.func_info, workgroup_size,
        [err |-> "ok", lm |-> lm, made |-> made, c_args |-> <<>>])

\* Kernel._get_workgroup_size (202-204)
Kernel_get_workgroup_size(self, global_size) ==
    splay(queue, global_size, Some(self.max_work_group_size))

\* Kernel.__call__ (206-222), global_size and local_size the keyword
\* arguments, one-dimensional.  launched: self.knl(...) was called.
Kernel_call(self, args, global_size, local_size, lm, made) ==
    LET fail(e) == [err |-> e, gs |-> 0, ls |-> 0, c_args |-> <<>>,
                    launched |-> FALSE, lm |-> lm, made |-> made]
    IN  IF args = <<>> THEN fail("IndexError")
        ELSE IF args[1].kind # "Array" THEN fail("AttributeError")
        ELSE
            LET nn == IF global_size = None THEN args[1].size
                      ELSE global_size[1]
                geo == IF local_size # None THEN
                           [gs |-> ((nn + local_size[1] - 1) \div local_size[1])
                                       * local_size[1],
                            ls |-> local_size[1]]
                       ELSE
                           LET sp == Kernel_get_workgroup_size(self, nn)
                           IN  [gs |-> sp.gs, ls |-> sp.ls]
                m == Kernel_get_args(self, args, geo.ls, lm, made)
            IN  [err |-> m.err, gs |-> geo.gs, ls |-> geo.ls,
                 c_args |-> m.c_args,
                 launched |-> (m.err = "ok" /\ self.backend = "opencl"),
                 lm |-> m.lm, made |-> m.made]

(***************************************************************************)
(* One Kernel as a state machine: the program, the signature of f, the     *)
(* precision and a LocalMem are there at the start; the Kernel of f is     *)
(* constructed once and then called, one call after the other; the         *)
(* precision may change at any time.                                       *)
(***************************************************************************)
KernelPrograms ==
    {c \in Programs :
        c["g"] = <<>> /\ c["h"] = <<>> /\ c["f"] \in {<<>>, <<"g">>, <<"f">>}}

KernelWgSizes == {32, 256}

\* The keyword arguments of a call: absent, or a one-dimensional size.
GlobalSizes == {None, Some(200)}

LocalSizes == {None, Some(48)}

InitKernel ==
    /\ SplayIdle
    /\ calls \in KernelPrograms
    /\ backend = "opencl"
    /\ blocks = <<>>
    /\ parsed = <<>>
    /\ added = {}
    /\ lastObj = None
    /\ addResult = "ok"
    /\ prevBlocks = <<>>
    /\ defaultBackend = "opencl"
    /\ lmem = LocalMem_init(2, Some("opencl")).self
    /\ lmCtor = "ok"
    /\ allocs = <<>>
    /\ getLog = <<>>
    /\ use_double \in BOOLEAN
    /\ annotations \in Signatures
    /\ knl = None
    /\ knlCtor = "none"
    /\ policy0 = use_double
    /\ knlCall = None

SetUseDouble(v) ==
    /\ use_double # v
    /\ use_double' = v
    /\ UNCHANGED <<annotations, knl, knlCtor, policy0, knlCall>>
    /\ UNCHANGED <<splayVars, tpVars, lmVars>>

NewKernel(func, b, wg) ==
    /\ knlCtor = "none"
    /\ LET r == Kernel_init(func, b, wg)
       IN  /\ knlCtor' = r.err
           /\ knl' = r.self
           /\ IF r.tp = None
              THEN UNCHANGED <<backend, blocks, parsed, added, lastObj,
                               addResult>>
              ELSE /\ backend' = r.tp[1].backend
                   /\ blocks' = r.tp[1].blocks
                   /\ parsed' = r.tp[1].parsed
                   /\ added' = {func}
                   /\ lastObj' = Some(func)
                   /\ addResult' = r.tp[1].err
    /\ policy0' = use_double
    /\ UNCHANGED <<calls, prevBlocks, use_double, annotations, knlCall>>
    /\ UNCHANGED <<splayVars, lmVars>>

Call(args, global_size, local_size) ==
    /\ knl # None
    /\ knlCall = None
    /\ LET r == Kernel_call(knl[1], args, global_size, local_size,
                            lmem[1], allocs)
       IN  /\ knlCall' = Some([args |-> args, global_size |-> global_size,
                               local_size |-> local_size, err |-> r.err,
                               gs |-> r.gs, ls |-> r.ls, c_args |-> r.c_args,
                               launched |-> r.launched])
           /\ lmem' = Some(r.lm)
           /\ allocs' = r.made
    /\ UNCHANGED <<defaultBackend, lmCtor, getLog>>
    /\ UNCHANGED <<use_double, annotations, knl, knlCtor, policy0>>
    /\ UNCHANGED <<splayVars, tpVars>>

\* The caller has seen the outcome of the call and goes on.
Return ==
    /\ knlCall # None
    /\ knlCall' = None
    /\ UNCHANGED <<use_double, annotations, knl, knlCtor, policy0>>
    /\ UNCHANGED <<splayVars, tpVars, lmVars>>

NextKernel ==
    \/ \E v \in BOOLEAN : SetUseDouble(v)
    \/ \E b \in {Some(x) : x \in Backends}, wg \in KernelWgSizes :
          NewKernel("f", b, wg)
    \/ \E args \in ArgLists, global_size \in GlobalSizes,
          local_size \in LocalSizes :
          Call(args, global_size, local_size)
    \/ Return

SpecKernel == InitKernel /\ [][NextKernel]_vars

(***************************************************************************)
(* Claims about Kernel.                                                    *)
(***************************************************************************)
Called == knl # None /\ knlCall # None

\* C6: a call with a number of positional arguments different from the
\* number of declared parameters fails with an error and launches nothing;
\* no argument is dropped or left out.
C6_ArgumentCountChecked ==
    (Called /\ Len(knlCall[1].args) # Len(annotations)) =>
        (knlCall[1].err # "ok" /\ ~knlCall[1].launched)

NoDouble(text) == \A i \in DOMAIN text : text[i] # "double"

\* C8: for a Kernel constructed while the precision was P, whatever the
\* precision is changed to later, a plain scalar passed for a parameter
\* declared double is wrapped in a one-element buffer of 32-bit width iff P
\* was 32-bit (of 64-bit width otherwise), and the compiled source has no
\* standalone double iff P was 32-bit.
C8_PrecisionFixedAtConstruction ==
    knl # None =>
        /\ NoDouble(knl[1].source) <=> ~policy0
        /\ (knlCall # None /\ knlCall[1].err = "ok") =>
              \A i \in DOMAIN knlCall[1].c_args :
                  (knlCall[1].args[i].kind = "scalar"
                      /\ annotations[i].type = <<"double">>) =>
                      /\ knlCall[1].c_args[i].kind = "ndarray"
                      /\ knlCall[1].c_args[i].nbytes = (IF policy0 THEN 8 ELSE 4)
                      /\ (knlCall[1].c_args[i].dtype = "float32") <=> ~policy0

C8_Witness ==
    /\ Called
    /\ ~policy0
    /\ use_double
    /\ annotations = <<KnownType(<<"GLOBAL_MEM", "double", "*">>, <<"double">>),
                       KnownType(<<"double">>, <<>>)>>
    /\ knlCall[1].args = <<Array(100), Scalar>>
    /\ knlCall[1].launched
    /\ knlCall[1].c_args[2].dtype = "float32"
=============================================================================
